---------------------------- MODULE Spec2Model ----------------------------
(***************************************************************************)
(* A model of custom_helper.py: the firm-name normalisation                *)
(* regex_strip_legalname (a single regular-expression substitution applied *)
(* to every element of a list), the list utilities list_remove_duplicates  *)
(* and list_batch, and the calendar helper date_add_year.                  *)
(*                                                                         *)
(* A name is a sequence of one-character strings, so that the regular      *)
(* expression is matched character by character, with the leftmost-first   *)
(* backtracking order of Python's re module.                               *)
(***************************************************************************)
EXTENDS Integers, Sequences, FiniteSets, TLC

VARIABLES
    pc,              \* position of the call under analysis
    raw_names,       \* regex_strip_legalname: the argument list
    stripped_names,  \* regex_strip_legalname: the returned list
    l,               \* list_remove_duplicates: the argument list
    deduped,         \* list_remove_duplicates: the returned list
    lst,             \* list_batch: the argument list
    n,               \* list_batch: the batch size
    i,               \* list_batch: the loop variable of range(0, len(lst), n)
    yielded,         \* list_batch: the chunks yielded so far, in order
    d,               \* date_add_year: the argument date [year, month, day]
    years,           \* date_add_year: the argument years
    result           \* date_add_year: the returned date, or an exception name

vars == <<pc, raw_names, stripped_names, l, deduped, lst, n, i, yielded,
          d, years, result>>

-----------------------------------------------------------------------------
(* Character classes of Python's re for str patterns, over the characters  *)
(* the inputs are built from.                                              *)

Letters ==
    {"A","B","C","D","E","F","G","H","I","J","K","L","M","N","O","P","Q","R",
     "S","T","U","V","W","X","Y","Z",
     "a","b","c","d","e","f","g","h","i","j","k","l","m","n","o","p","q","r",
     "s","t","u","v","w","x","y","z"}

Digits == {"0","1","2","3","4","5","6","7","8","9"}

\* s[p], or "" (no character) outside the string
At(s, p) == IF p >= 1 /\ p <= Len(s) THEN s[p] ELSE ""

\* \w
IsWord(c) == c \in Letters \cup Digits \cup {"_"}

\* \W : one character that is not a word character
IsNonWord(c) == c # "" /\ ~IsWord(c)

\* \s
IsSpace(c) == c \in {" ", "\t", "\n", "\r", "\f"}

\* one iteration of the leading group (\s|\.|\,|\&)
IsSep(c) == IsSpace(c) \/ c \in {".", ",", "&"}

\* \b between s[p-1] and s[p]
WordBoundary(s, p) == IsWord(At(s, p - 1)) # IsWord(At(s, p))

\* the literal lit matches s at p
Lit(s, p, lit) ==
    /\ p >= 1
    /\ p + Len(lit) - 1 <= Len(s)
    /\ \A k \in 1..Len(lit) : s[p + k - 1] = lit[k]

\* the first position >= p that holds no word character (greedy \w*)
RECURSIVE WordRunEnd(_, _)
WordRunEnd(s, p) == IF IsWord(At(s, p)) THEN WordRunEnd(s, p + 1) ELSE p

\* the first position >= p that holds no separator (greedy (\s|\.|\,|\&)* )
RECURSIVE SepRunEnd(_, _)
SepRunEnd(s, p) == IF IsSep(At(s, p)) THEN SepRunEnd(s, p + 1) ELSE p

-----------------------------------------------------------------------------
(* The alternatives of the pattern's second group, in the order of the     *)
(* source.  Each gives the position after the token when the alternative   *)
(* matches s at p, and 0 when it does not.                                 *)

\* a literal alternative
LitEnd(s, p, lit) == IF Lit(s, p, lit) THEN p + Len(lit) ELSE 0

\* Co\b  and  Inc\b
LitBoundaryEnd(s, p, lit) ==
    IF Lit(s, p, lit) /\ WordBoundary(s, p + Len(lit)) THEN p + Len(lit) ELSE 0

\* Corp\w*
CorpNoStarEnd(s, p) == LitEnd(s, p, <<"C","o","r","p">>)

CorpEnd(s, p) ==
    IF Lit(s, p, <<"C","o","r","p">>) THEN WordRunEnd(s, p + 4) ELSE 0

\* Group\sInc  and  Holdings\sInc
LitSpaceIncEnd(s, p, lit) ==
    IF /\ Lit(s, p, lit)
       /\ IsSpace(At(s, p + Len(lit)))
       /\ Lit(s, p + Len(lit) + 1, <<"I","n","c">>)
    THEN p + Len(lit) + 4
    ELSE 0

\* \WCo(\s|\.)
NonWordCoEnd(s, p) ==
    IF /\ IsNonWord(At(s, p))
       /\ Lit(s, p + 1, <<"C","o">>)
       /\ (IsSpace(At(s, p + 3)) \/ At(s, p + 3) = ".")
    THEN p + 4
    ELSE 0

\* \(?Class\s\w+\)?
ClassEnd(s, p) ==
    LET q == IF At(s, p) = "(" THEN p + 1 ELSE p
        e == WordRunEnd(s, q + 6)
    IN  IF /\ Lit(s, q, <<"C","l","a","s","s">>)
           /\ IsSpace(At(s, q + 5))
           /\ IsWord(At(s, q + 6))
        THEN IF At(s, e) = ")" THEN e + 1 ELSE e
        ELSE 0

NumAlternatives == 19

\* alternative a of the group at p
AltEnd(s, p, a) ==
    CASE a = 1  -> LitEnd(s, p, <<".","c","o","m">>)
      [] a = 2  -> LitEnd(s, p, <<"E","n","t","e","r","p","r","i","s","e">>)
      [] a = 3  -> LitEnd(s, p, <<"W","o","r","l","d","w","i","d","e">>)
      [] a = 4  -> LitEnd(s, p, <<"I","n","t","'","l">>)
      [] a = 5  -> LitEnd(s, p, <<"N",".","V",".">>)
      [] a = 6  -> LitEnd(s, p, <<"L","L","C">>)
      [] a = 7  -> LitBoundaryEnd(s, p, <<"C","o">>)
      [] a = 8  -> LitBoundaryEnd(s, p, <<"I","n","c">>)
      [] a = 9  -> CorpEnd(s, p)
      [] a = 10 -> LitSpaceIncEnd(s, p, <<"G","r","o","u","p">>)
      [] a = 11 -> LitEnd(s, p, <<"G","r","o","u","p">>)
      [] a = 12 -> LitEnd(s, p, <<"C","o","m","p","a","n","y">>)
      [] a = 13 -> LitSpaceIncEnd(s, p, <<"H","o","l","d","i","n","g","s">>)
      [] a = 14 -> NonWordCoEnd(s, p)
      [] a = 15 -> LitEnd(s, p, <<"p","l","c">>)
      [] a = 16 -> LitEnd(s, p, <<"L","t","d">>)
      [] a = 17 -> LitEnd(s, p, <<"I","n","t","'","l",".">>)
      [] a = 18 -> LitEnd(s, p, <<"H","o","l","d","i","n","g","s">>)
      [] a = 19 -> ClassEnd(s, p)

\* the first alternative, from a on, that matches at p (0: none)
RECURSIVE FirstAlt(_, _, _)
FirstAlt(s, p, a) ==
    IF a > NumAlternatives THEN 0
    ELSE IF AltEnd(s, p, a) # 0 THEN a
    ELSE FirstAlt(s, p, a + 1)

\* the trailing \.?\W? from position e on: the position after it
TailRunEnd(s, e) ==
    LET e1 == IF At(s, e) = "." THEN e + 1 ELSE e
    IN  SepRunEnd(s, e1)

TailEnd(s, e) ==
    LET e1 == IF At(s, e) = "." THEN e + 1 ELSE e
    IN  IF IsNonWord(At(s, e1)) THEN e1 + 1 ELSE e1

NoMatch == [start |-> 0, tok |-> 0, alt |-> 0, tokEnd |-> 0, end |-> 0]

\* The pattern tried at start, the leading group having taken the k
\* characters before t: the group is greedy and gives its characters back
\* one at a time until an alternative matches.
RECURSIVE MatchFrom(_, _, _)
MatchFrom(s, start, t) ==
    LET a == FirstAlt(s, t, 1)
    IN  IF a # 0
        THEN [start |-> start, tok |-> t, alt |-> a,
              tokEnd |-> AltEnd(s, t, a),
              end |-> TailEnd(s, AltEnd(s, t, a))]
        ELSE IF t > start THEN MatchFrom(s, start, t - 1)
        ELSE NoMatch

\* pattern.match at start
MatchAt(s, start) == MatchFrom(s, start, SepRunEnd(s, start))

\* pattern.search from pos: the leftmost match
RECURSIVE Search(_, _)
Search(s, pos) ==
    IF pos > Len(s) THEN NoMatch
    ELSE LET m == MatchAt(s, pos)
         IN  IF m.start # 0 THEN m ELSE Search(s, pos + 1)

Slice(s, a, b) == IF a >= b THEN << >> ELSE SubSeq(s, a, b - 1)

\* re.sub(pattern, '', s) with count = 1
RECURSIVE SubLoopOnce(_, _, _)
SubLoopOnce(s, pos, out) ==
    LET m == Search(s, pos)
    IN  IF m.start = 0 THEN out \o Slice(s, pos, Len(s) + 1)
        ELSE out \o Slice(s, pos, m.start) \o Slice(s, m.end, Len(s) + 1)

\* re.sub(pattern, '', s): the loop over the successive matches, each search
\* resuming where the previous match ended
RECURSIVE SubLoop(_, _, _)
SubLoop(s, pos, out) ==
    LET m == Search(s, pos)
    IN  IF m.start = 0 THEN out \o Slice(s, pos, Len(s) + 1)
        ELSE SubLoop(s, m.end, out \o Slice(s, pos, m.start))

re_sub(s) == SubLoop(s, 1, << >>)

\* [re.sub(pattern, '', n) for n in raw_names], without the empty results
StripDroppingEmpty(names) ==
    SelectSeq([k \in 1..Len(names) |-> re_sub(names[k])], LAMBDA x : x # << >>)

regex_strip_legalname(names) == [k \in 1..Len(names) |-> re_sub(names[k])]

-----------------------------------------------------------------------------
(* The inputs of regex_strip_legalname.                                    *)

MaxParts == 4
MaxNames == 3

RecognizedTokens ==
    { <<".","c","o","m">>,
      <<"E","n","t","e","r","p","r","i","s","e">>,
      <<"W","o","r","l","d","w","i","d","e">>,
      <<"I","n","t","'","l">>,
      <<"N",".","V",".">>,
      <<"L","L","C">>,
      <<"C","o">>,
      <<"I","n","c">>,
      <<"C","o","r","p">>,
      <<"C","o","r","p","o","r","a","t","i","o","n">>,
      <<"G","r","o","u","p"," ","I","n","c">>,
      <<"G","r","o","u","p">>,
      <<"C","o","m","p","a","n","y">>,
      <<"H","o","l","d","i","n","g","s"," ","I","n","c">>,
      <<"p","l","c">>,
      <<"L","t","d">>,
      <<"I","n","t","'","l",".">>,
      <<"H","o","l","d","i","n","g","s">>,
      <<"C","l","a","s","s"," ","A">>,
      <<"(","C","l","a","s","s"," ","A",")">>,
      <<"C","l","a","s","s"," ","B","2">>,
      <<"(","C","l","a","s","s"," ","B","2",")">> }

Parts ==
    { <<"A","c","m","e">>,
      <<"I","n","c">>,
      <<"C","o">>,
      <<" ">>,
      <<".">>,
      <<"&">>,
      <<"-">> }

Contexts ==
    { <<>>,
      <<"A","c","m","e"," ">>,
      <<"P","e","p","s","i">>,
      <<"M","y","C","l","a","s","s"," ">>,
      <<"A","c","m","e","-">>,
      <<"A","c","m","e"," ","&"," ">> }

Followers ==
    { <<>>,
      <<".">>,
      <<" ","F","o","o">>,
      <<"."," ","F","o","o">>,
      <<"x">>,
      <<","," ","I","n","c",".">> }

ListPool ==
    { <<>>,
      <<"A","c","m","e">>,
      <<"I","n","c">>,
      <<"A","c","m","e"," ","I","n","c">>,
      <<"P","e","p","s","i","C","o">> }

RECURSIVE Concat(_)
Concat(ss) == IF ss = << >> THEN << >> ELSE Head(ss) \o Concat(Tail(ss))

\* every concatenation of at most MaxParts parts
PartNames == UNION { { Concat(f) : f \in [1..k -> Parts] } : k \in 0..MaxParts }

\* every recognized token in every context, with every follower
ShapeNames ==
    { pre \o t \o post : pre \in Contexts, t \in RecognizedTokens,
                         post \in Followers }

Names == PartNames \cup ShapeNames

RawNameLists ==
    { <<x>> : x \in Names }
        \cup UNION { [1..k -> ListPool] : k \in 0..MaxNames }

NoDate == [year |-> 0, month |-> 0, day |-> 0]
NoResult == [year |-> 0, month |-> 0, day |-> 0, raised |-> "none"]

IdleStrip == raw_names = << >> /\ stripped_names = << >>
IdleDedup == l = << >> /\ deduped = << >>
IdleBatch == lst = << >> /\ n = 0 /\ i = 0 /\ yielded = << >>
IdleDate  == d = NoDate /\ years = 0 /\ result = NoResult

InitStrip ==
    /\ pc = "strip_call"
    /\ raw_names \in RawNameLists
    /\ stripped_names = << >>
    /\ IdleDedup /\ IdleBatch /\ IdleDate

\* the call regex_strip_legalname(raw_names)
Strip ==
    /\ pc = "strip_call"
    /\ stripped_names' = regex_strip_legalname(raw_names)
    /\ pc' = "strip_return"
    /\ UNCHANGED <<raw_names, l, deduped, lst, n, i, yielded, d, years, result>>

SpecStrip == InitStrip /\ [][Strip]_vars

-----------------------------------------------------------------------------
(* Properties of regex_strip_legalname.                                    *)

\* pattern.finditer(s) from pos: the successive non-overlapping matches
RECURSIVE FindIter(_, _)
FindIter(s, pos) ==
    LET m == Search(s, pos)
    IN  IF m.start = 0 THEN << >> ELSE <<m>> \o FindIter(s, m.end)

Matches(s) == FindIter(s, 1)

\* the positions of s inside one of the matches ms
Covered(ms) ==
    UNION { ms[k].start .. (ms[k].end - 1) : k \in 1..Len(ms) }

\* s without the characters at the positions in ps
RECURSIVE DeleteFrom(_, _, _)
DeleteFrom(s, ps, p) ==
    IF p > Len(s) THEN << >>
    ELSE (IF p \in ps THEN << >> ELSE <<s[p]>>) \o DeleteFrom(s, ps, p + 1)

Delete(s, ps) == DeleteFrom(s, ps, 1)

Returned == pc = "strip_return"

\* C1 as stated: a name with two or more non-overlapping matches of the
\* pattern loses its first match only; every later match stays in the output.
C1_OnlyFirstRemoved ==
    Returned =>
        \A k \in 1..Len(raw_names) :
            LET s  == raw_names[k]
                ms == Matches(s)
            IN  Len(ms) >= 2 =>
                    stripped_names[k] = Delete(s, Covered(<<ms[1]>>))

\* C1: every non-overlapping match of the pattern, found from left to right
\* with each search resuming where the previous match ended, is removed: the
\* output is the name without the characters of any of its matches.
C1_EveryMatchRemoved ==
    Returned =>
        /\ Len(stripped_names) = Len(raw_names)
        /\ \A k \in 1..Len(raw_names) :
               stripped_names[k]
                   = Delete(raw_names[k], Covered(Matches(raw_names[k])))

\* a name with two matches whose second match is gone from the output
C1_TwoMatchesRemoved ==
    /\ Returned
    /\ \E k \in 1..Len(raw_names) :
           LET s  == raw_names[k]
               ms == Matches(s)
           IN  /\ Len(ms) >= 2
               /\ stripped_names[k] = Delete(s, Covered(ms))
               /\ stripped_names[k] # Delete(s, Covered(<<ms[1]>>))

\* C2 as stated: an occurrence of Co or Inc that the alternatives Co\b and
\* Inc\b remove is a whole word: no word character stands directly before
\* or directly after it.
C2_CoIncWholeWord ==
    Returned =>
        \A k \in 1..Len(raw_names) :
            LET s  == raw_names[k]
                ms == Matches(s)
            IN  \A j \in 1..Len(ms) :
                    ms[j].alt \in {7, 8} =>
                        /\ ~IsWord(At(s, ms[j].tok - 1))
                        /\ ~IsWord(At(s, ms[j].tokEnd))

\* t is a recognized token and s is core, one space, t, where core is a
\* non-empty run of word characters that holds no recognized token and no
\* match of the pattern
IsSubstring(t, s) == \E p \in 1..(Len(s) - Len(t) + 1) : Lit(s, p, t)

CoreBeforeToken(s, t) ==
    LET c    == Len(s) - Len(t) - 1
        core == Slice(s, 1, c + 1)
    IN  /\ c >= 1
        /\ s[c + 1] = " "
        /\ Slice(s, c + 2, Len(s) + 1) = t
        /\ \A p \in 1..c : IsWord(s[p])
        /\ \A u \in RecognizedTokens : ~IsSubstring(u, core)
        /\ Search(core, 1) = NoMatch

\* C3 as stated: core, one space and a recognized token is normalized to
\* exactly core.
C3_CoreSpaceTokenGivesCore ==
    Returned =>
        \A k \in 1..Len(raw_names) : \A t \in RecognizedTokens :
            LET s == raw_names[k]
            IN  CoreBeforeToken(s, t) =>
                    stripped_names[k] = Slice(s, 1, Len(s) - Len(t))

\* the start of the run of separators that ends right before position p
RECURSIVE SepRunStart(_, _)
SepRunStart(s, p) ==
    IF IsSep(At(s, p - 1)) THEN SepRunStart(s, p - 1) ELSE p

SpanLengths(ms) == Cardinality(Covered(ms))

\* C4 as stated: at most one character after the matched token is removed.
C4_AtMostOneAfterToken ==
    Returned =>
        \A k \in 1..Len(raw_names) :
            LET ms == Matches(raw_names[k])
            IN  \A j \in 1..Len(ms) : ms[j].end - ms[j].tokEnd <= 1

\* C4: after the text of the token alternative at most two characters are
\* removed, an optional period and then an optional single non-word
\* character, and the whole run of whitespace, periods, commas and
\* ampersands right before the token is removed.
C4_AtMostPeriodAndNonWordAfterToken ==
    Returned =>
        \A k \in 1..Len(raw_names) :
            LET s  == raw_names[k]
                ms == Matches(s)
            IN  /\ Len(stripped_names[k]) = Len(s) - SpanLengths(ms)
                /\ \A j \in 1..Len(ms) :
                       LET e == ms[j].tokEnd
                           t == ms[j].end - e
                       IN  /\ t \in 0..2
                           /\ t = 1 => IsNonWord(s[e])
                           /\ t = 2 => s[e] = "." /\ IsNonWord(s[e + 1])
                           /\ SepRunStart(s, ms[j].tok) .. (ms[j].tok - 1)
                                  \subseteq Covered(ms)

\* a match that takes a run of two separators before its token and a period
\* and a space after it
C4_PeriodAndSpaceRemoved ==
    /\ Returned
    /\ \E k \in 1..Len(raw_names) :
           LET s  == raw_names[k]
               ms == Matches(s)
           IN  \E j \in 1..Len(ms) :
                   /\ ms[j].end - ms[j].tokEnd = 2
                   /\ ms[j].tok - ms[j].start >= 2
                   /\ Len(stripped_names[k]) = Len(s) - SpanLengths(ms)

\* C5: the call returns a list as long as its argument, whose element at
\* each index is what the function returns for that element alone; the empty
\* list gives the empty list; the argument list is left as it was.
C5_ElementwiseSameLength ==
    [][pc' = "strip_return" =>
          /\ raw_names' = raw_names
          /\ Len(stripped_names') = Len(raw_names)
          /\ raw_names = << >> => stripped_names' = << >>
          /\ \A k \in 1..Len(raw_names) :
                 stripped_names'[k]
                     = regex_strip_legalname(<<raw_names[k]>>)[1]]_vars

\* a list of three different non-empty names: one without a match, one
\* shortened by the normalization, one that is a bare token
C5_ThreeNamesReturned ==
    /\ Returned
    /\ Len(raw_names) = 3 /\ Len(stripped_names) = 3
    /\ raw_names[1] # << >> /\ stripped_names[1] = raw_names[1]
    /\ stripped_names[2] # raw_names[2] /\ stripped_names[2] # << >>
    /\ raw_names[3] # << >> /\ stripped_names[3] = << >>

\* C6: a name that is exactly one recognized token is normalized to the
\* empty string, a name the pattern does not match anywhere is returned
\* unchanged, and the empty string gives the empty string.
C6_TokenAloneGivesEmpty ==
    Returned =>
        \A k \in 1..Len(raw_names) :
            LET s == raw_names[k]
            IN  /\ s \in RecognizedTokens => stripped_names[k] = << >>
                /\ Search(s, 1) = NoMatch => stripped_names[k] = s
                /\ s = << >> => stripped_names[k] = << >>

\* a list holding a bare token, normalized to the empty string, and a
\* non-empty name without a match, returned as it is
C6_TokenAndCleanName ==
    /\ Returned
    /\ \E j, k \in 1..Len(raw_names) :
           /\ raw_names[j] \in RecognizedTokens
           /\ stripped_names[j] = << >>
           /\ raw_names[k] # << >>
           /\ Search(raw_names[k], 1) = NoMatch
           /\ stripped_names[k] = raw_names[k]

-----------------------------------------------------------------------------
(* list_remove_duplicates and list_batch.                                  *)

MaxLen == 5
MaxN == 4

Values == {"a", "b", "c"}

Lists == UNION { [1..k -> Values] : k \in 0..MaxLen }

\* the comprehension [x for x in l if not (x in seen or seen_add(x))], with
\* seen never updated
RECURSIVE DedupLoopSeenNotUpdated(_, _, _)
DedupLoopSeenNotUpdated(xs, seen, out) ==
    IF xs = << >> THEN out
    ELSE IF Head(xs) \in seen
         THEN DedupLoopSeenNotUpdated(Tail(xs), seen, out)
         ELSE DedupLoopSeenNotUpdated(Tail(xs), seen, Append(out, Head(xs)))

\* the comprehension [x for x in l if not (x in seen or seen_add(x))]: x is
\* kept when it is not in seen, and is then added to seen
RECURSIVE DedupLoop(_, _, _)
DedupLoop(xs, seen, out) ==
    IF xs = << >> THEN out
    ELSE IF Head(xs) \in seen
         THEN DedupLoop(Tail(xs), seen, out)
         ELSE DedupLoop(Tail(xs), seen \cup {Head(xs)}, Append(out, Head(xs)))

list_remove_duplicates(xs) == DedupLoop(xs, {}, << >>)

InitDedup ==
    /\ pc = "dedup_call"
    /\ l \in Lists
    /\ deduped = << >>
    /\ IdleStrip /\ IdleBatch /\ IdleDate

\* the call list_remove_duplicates(l)
Dedup ==
    /\ pc = "dedup_call"
    /\ deduped' = list_remove_duplicates(l)
    /\ pc' = "dedup_return"
    /\ UNCHANGED <<raw_names, stripped_names, l, lst, n, i, yielded,
                   d, years, result>>

SpecDedup == InitDedup /\ [][Dedup]_vars

Min(a, b) == IF a <= b THEN a ELSE b

\* xs[a:b + 1] for 0 <= a
PySliceOneMore(xs, a, b) == SubSeq(xs, a + 1, Min(b + 1, Len(xs)))

\* xs[a:b] for 0 <= a <= b, positions counted from 0, b cut to len(xs)
PySlice(xs, a, b) == SubSeq(xs, a + 1, Min(b, Len(xs)))

\* the value range(0, len(lst), n) gives after i, or first
NextIndex == IF pc = "batch_call" THEN 0 ELSE i + n

InitBatch ==
    /\ pc = "batch_call"
    /\ lst \in Lists
    /\ n \in 1..MaxN
    /\ i = 0
    /\ yielded = << >>
    /\ IdleStrip /\ IdleDedup /\ IdleDate

\* the generator is resumed and the loop has another index: it yields
\* lst[i:i + n]
BatchYield ==
    /\ pc \in {"batch_call", "batch_yield"}
    /\ NextIndex < Len(lst)
    /\ i' = NextIndex
    /\ yielded' = Append(yielded, PySlice(lst, NextIndex, NextIndex + n))
    /\ pc' = "batch_yield"
    /\ UNCHANGED <<raw_names, stripped_names, l, deduped, lst, n,
                   d, years, result>>

\* the generator is resumed and the range is exhausted: it returns
BatchStop ==
    /\ pc \in {"batch_call", "batch_yield"}
    /\ NextIndex >= Len(lst)
    /\ pc' = "batch_done"
    /\ UNCHANGED <<raw_names, stripped_names, l, deduped, lst, n, i, yielded,
                   d, years, result>>

NextBatch == BatchYield \/ BatchStop

SpecBatch == InitBatch /\ [][NextBatch]_vars

-----------------------------------------------------------------------------
(* Properties of list_batch and list_remove_duplicates.                    *)

\* C7: for a batch size n >= 1 the chunks yielded so far, joined in the
\* order they were yielded, are the first elements of lst, each of them but
\* the latest of length n and the latest of length 1 to n; when the
\* generator is exhausted they join to exactly lst, and an empty lst has
\* yielded no chunk.
C7_ChunksJoinToList ==
    /\ n >= 1 =>
           /\ Concat(yielded) = SubSeq(lst, 1, Len(Concat(yielded)))
           /\ \A k \in 1..Len(yielded) :
                  /\ Len(yielded[k]) \in 1..n
                  /\ k < Len(yielded) => Len(yielded[k]) = n
    /\ pc = "batch_done" /\ n >= 1 =>
           /\ Concat(yielded) = lst
           /\ lst = << >> => yielded = << >>

\* an exhausted generator that yielded two chunks or more, the last one
\* shorter than n
C7_ShortLastChunk ==
    /\ pc = "batch_done"
    /\ Len(yielded) >= 2
    /\ Len(yielded[Len(yielded)]) < n
    /\ Concat(yielded) = lst

Range(xs) == { xs[k] : k \in 1..Len(xs) }

\* the index of the first occurrence of x in xs
FirstIndex(xs, x) == CHOOSE k \in 1..Len(xs) :
                        xs[k] = x /\ \A j \in 1..(k - 1) : xs[j] # x

-----------------------------------------------------------------------------
(* date_add_year, over datetime.date's proleptic Gregorian calendar.       *)

MaxYears == 4

\* datetime.MINYEAR and datetime.MAXYEAR
MINYEAR == 1
MAXYEAR == 9999

\* the years of the argument dates: the ends of the supported range, leap
\* years, a century that is no leap year and one that is
DateYears == {1, 4, 1896, 1900, 1996, 2000, 2020, 2023, 9996, 9999}

IsLeap(y) == y % 4 = 0 /\ (y % 100 # 0 \/ y % 400 = 0)

DaysInMonth(y, m) ==
    IF m = 2 THEN (IF IsLeap(y) THEN 29 ELSE 28)
    ELSE IF m \in {4, 6, 9, 11} THEN 30 ELSE 31

\* the days of year y before the first of month m
RECURSIVE DaysBeforeMonth(_, _)
DaysBeforeMonth(y, m) ==
    IF m = 1 THEN 0 ELSE DaysBeforeMonth(y, m - 1) + DaysInMonth(y, m - 1)

\* the days before January 1 of year y
DaysBeforeYear(y) ==
    (y - 1) * 365 + ((y - 1) \div 4) - ((y - 1) \div 100) + ((y - 1) \div 400)

\* date(y, m, dd) is accepted
ValidDate(y, m, dd) ==
    /\ y \in MINYEAR..MAXYEAR
    /\ m \in 1..12
    /\ dd \in 1..DaysInMonth(y, m)

Date(y, m, dd) == [year |-> y, month |-> m, day |-> dd]

\* date.toordinal(): January 1 of year 1 is day 1
ToOrdinal(x) ==
    DaysBeforeYear(x.year) + DaysBeforeMonth(x.year, x.month) + x.day

\* the month of the day numbered k (from 0) in year y, from month m on
RECURSIVE MonthOfDay(_, _, _)
MonthOfDay(y, k, m) ==
    IF k < DaysBeforeMonth(y, m) + DaysInMonth(y, m) THEN m
    ELSE MonthOfDay(y, k, m + 1)

\* date.fromordinal(o): the 400, 100, 4 and 1 year cycles of the ordinal
FromOrdinal(o) ==
    LET o0   == o - 1
        n400 == o0 \div 146097
        r400 == o0 % 146097
        n100 == r400 \div 36524
        r100 == r400 % 36524
        n4   == r100 \div 1461
        r4   == r100 % 1461
        n1   == r4 \div 365
        k    == r4 % 365
        y    == n400 * 400 + n100 * 100 + n4 * 4 + n1 + 1
    IN  IF n1 = 4 \/ n100 = 4 THEN Date(y - 1, 12, 31)
        ELSE LET m == MonthOfDay(y, k, 1)
             IN  Date(y, m, k - DaysBeforeMonth(y, m) + 1)

Returns(x) ==
    [year |-> x.year, month |-> x.month, day |-> x.day, raised |-> "none"]

Raises(e) == [year |-> 0, month |-> 0, day |-> 0, raised |-> e]

\* the except branch replaced by the last day of February
date_add_year_feb28(x, k) ==
    IF ValidDate(x.year + k, x.month, x.day)
    THEN Returns(Date(x.year + k, x.month, x.day))
    ELSE IF x.year + k \notin MINYEAR..MAXYEAR THEN Raises("ValueError")
    ELSE Returns(Date(x.year + k, 2, 28))

\* try: d.replace(year = d.year + years); except ValueError:
\* d + (date(d.year + years, 1, 1) - date(d.year, 1, 1)), where date() of a
\* year outside MINYEAR..MAXYEAR raises ValueError again
date_add_year(x, k) ==
    IF ValidDate(x.year + k, x.month, x.day)
    THEN Returns(Date(x.year + k, x.month, x.day))
    ELSE IF x.year + k \notin MINYEAR..MAXYEAR THEN Raises("ValueError")
    ELSE LET delta == DaysBeforeYear(x.year + k) - DaysBeforeYear(x.year)
             o     == ToOrdinal(x) + delta
         IN  IF o < 1 \/ o > ToOrdinal(Date(MAXYEAR, 12, 31))
             THEN Raises("OverflowError")
             ELSE Returns(FromOrdinal(o))

Dates ==
    { Date(y, m, dd) : y \in DateYears, m \in 1..12, dd \in 1..31 }

InitDate ==
    /\ pc = "date_call"
    /\ d \in { x \in Dates : ValidDate(x.year, x.month, x.day) }
    /\ years \in (-MaxYears)..MaxYears
    /\ result = NoResult
    /\ IdleStrip /\ IdleDedup /\ IdleBatch

\* the call date_add_year(d, years)
AddYear ==
    /\ pc = "date_call"
    /\ result' = date_add_year(d, years)
    /\ pc' = "date_return"
    /\ UNCHANGED <<raw_names, stripped_names, l, deduped, lst, n, i, yielded,
                   d, years>>

SpecDate == InitDate /\ [][AddYear]_vars

\* C9: when d.year + years is a supported year, the call returns the same
\* month and day in that year if that date exists, and otherwise d is
\* February 29, the destination year is no leap year and the call returns
\* March 1 of that year.
C9_SameDayOrMarchFirst ==
    pc = "date_return" /\ d.year + years \in MINYEAR..MAXYEAR =>
        IF ValidDate(d.year + years, d.month, d.day)
        THEN result = Returns(Date(d.year + years, d.month, d.day))
        ELSE /\ d.month = 2 /\ d.day = 29
             /\ ~IsLeap(d.year + years)
             /\ result = Returns(Date(d.year + years, 3, 1))

\* February 29 moved by a number of years to a year that is no leap year
C9_LeapDayMovedToMarchFirst ==
    /\ pc = "date_return"
    /\ d.month = 2 /\ d.day = 29
    /\ years # 0
    /\ result = Returns(Date(d.year + years, 3, 1))

=============================================================================
